---- MODULE Spec2Model ----
(***************************************************************************)
(* msearch: a key -> multi-value store over an append-only file that is    *)
(* read and edited in place through a shared mapping.  The model keeps the *)
(* record format byte for byte: [total(8) klen(1) key (vlen(1) value)*     *)
(* self_end(8) next(8)], the in-memory index keyMap and the append         *)
(* position offset.                                                        *)
(***************************************************************************)
EXTENDS Integers, Sequences, FiniteSets, TLC

VARIABLES keyMap, offset, bytesAddr, crashed, hist, pre, mu, pc, readers, snap,
          limit

vars ==
  <<keyMap, offset, bytesAddr, crashed, hist, pre, mu, pc, readers, snap,
    limit>>

(* ---------------------------------------------------------------- bounds *)

\* Number of operations in one run of the sequential specifications.
MaxOps == 3

\* The length argument of NewMsearch: the size of the mapping.
MapLength == 65536

\* Number of operations each goroutine of the concurrent specification runs.
MaxCalls == 1

\* Number of operations in one run of the gap-reuse specification.
MaxGapOps == 4

\* Number of operations in one run of the record-assembly specification.
MaxBigOps == 2

(* ------------------------------------------------------ program constants *)

notExist == -1

\* make([]byte, 1<<10): the scratch buffer of add and its growth step.
ScratchLen == 1024

\* The largest value length add accepts.
MaxValueLen == 255

\* A byte holds 0..255: byte(len(x)) and b[8] + 1 + 8 are taken modulo this.
ByteMod == 256

\* Trailer of a record: self_end(8) next(8).
TrailerLen == 16

\* Stands for every decoded integer that lies beyond any mapping of the model.
Huge == 1073741824

(* ------------------------------------------------------------------ bytes *)

Min(a, b) == IF a < b THEN a ELSE b

\* n copies of the byte c.
Rep(c, n) == SubSeq([j \in 1..n |-> c], 1, n)

\* The byte at absolute position i of the mapping; positions past the end of
\* the file read as zero.
Rd(mem, i) == IF i >= 0 /\ i < Len(mem) THEN mem[i + 1] ELSE 0

\* The n bytes at position pos.
Bytes(mem, pos, n) ==
  IF pos >= 0 /\ pos + n <= Len(mem) THEN SubSeq(mem, pos + 1, pos + n)
  ELSE SubSeq([j \in 1..n |-> Rd(mem, pos + j - 1)], 1, n)

\* copy(mem[pos:], bs) through the mapping (pos >= 0); a store past the end
\* of the file does not reach the file.
WriteAt(mem, pos, bs) ==
  IF pos >= Len(mem) THEN mem
  ELSE LET k == Min(Len(bs), Len(mem) - pos) IN
       SubSeq(mem, 1, pos) \o SubSeq(bs, 1, k)
         \o SubSeq(mem, pos + k + 1, Len(mem))

\* A slice expression bytesAddr[lo:hi] is in range.
SliceOK(lo, hi) == 0 <= lo /\ lo <= hi /\ hi <= MapLength

\* binary.BigEndian.PutUint64 for the numbers of the model (below 2^31).
PutUint64(n) ==
  <<0, 0, 0, 0, (n \div 16777216) % 256, (n \div 65536) % 256,
    (n \div 256) % 256, n % 256>>

\* bigUint64: big-endian decoding of at most 8 bytes into an int.  A result
\* beyond the model's mappings is reported as Huge, one with the sign bit set
\* as -Huge.
RECURSIVE bigFold(_, _, _)
bigFold(buf, j, x) ==
  IF j > Len(buf) THEN x
  ELSE bigFold(buf, j + 1,
               IF x >= Huge \div 256 THEN Huge ELSE x * 256 + buf[j])

bigUint64(buf) ==
  IF Len(buf) > 8 THEN 0
  ELSE IF Len(buf) = 8 /\ buf[1] >= 128 THEN 0 - Huge
  ELSE bigFold(buf, 1, 0)

\* int(b[8] + 1 + 8): byte arithmetic, so the sum wraps at 256.
HeaderEnd(klen) == (klen + 1 + 8) % ByteMod

(* ------------------------------------------------------------ record view *)

\* total := bigUint64(s.bytesAddr[offset : offset+8]);
\* b := s.bytesAddr[offset : offset+total]; i := int(b[8] + 1 + 8);
\* i < len(b[:len(b)-16]).  ok is FALSE when one of these panics.
openRec(mem, off) ==
  IF ~SliceOK(off, off + 8) THEN [ok |-> FALSE, total |-> 0, i0 |-> 0]
  ELSE LET total == bigUint64(Bytes(mem, off, 8)) IN
       IF ~SliceOK(off, off + total) \/ total <= 8 \/ total < TrailerLen
       THEN [ok |-> FALSE, total |-> total, i0 |-> 0]
       ELSE [ok |-> TRUE, total |-> total, i0 |-> HeaderEnd(Rd(mem, off + 8))]

\* bigUint64(b[total-8 : total])
nextOf(mem, off, total) == bigUint64(Bytes(mem, off + total - 8, 8))

\* Where a scan that stands on a 0x00 byte at i arrives by its steps i++:
\* the first position from i on that holds a live byte, or lim when the
\* bytes are 0x00 up to lim.  (A run is crossed a block at a time where a
\* whole block is 0x00.)
RECURSIVE skipZeros(_, _, _, _)
skipZeros(mem, off, i, lim) ==
  IF i >= lim THEN lim
  ELSE IF Rd(mem, off + i) # 0 THEN i
  ELSE IF i + 32 <= lim /\ \A k \in i..(i + 31) : Rd(mem, off + k) = 0
       THEN skipZeros(mem, off, i + 32, lim)
  ELSE skipZeros(mem, off, i + 1, lim)

(* -------------------------------------------------------------------- get *)

RECURSIVE getLoop(_, _, _, _, _)
getLoop(mem, off, total, i, list) ==
  IF i >= total - TrailerLen THEN [fault |-> FALSE, list |-> list]
  ELSE LET bi == Rd(mem, off + i) IN
       IF bi = 0
       THEN getLoop(mem, off, total,
                    skipZeros(mem, off, i, total - TrailerLen), list)
       ELSE IF off + i + 1 + bi > MapLength THEN [fault |-> TRUE, list |-> list]
       ELSE getLoop(mem, off, total, i + bi + 1,
                    Append(list, Bytes(mem, off + i + 1, bi)))

get(mem, off) ==
  LET r == openRec(mem, off) IN
  IF ~r.ok THEN [fault |-> TRUE, list |-> <<>>, lastDec |-> 0]
  ELSE LET g == getLoop(mem, off, r.total, r.i0, <<>>) IN
       [fault |-> g.fault, list |-> g.list,
        lastDec |-> nextOf(mem, off, r.total)]

RECURSIVE getsLoop(_, _, _)
getsLoop(mem, off, lists) ==
  LET g == get(mem, off) IN
  IF g.fault THEN [fault |-> TRUE, list |-> lists]
  ELSE IF g.lastDec = 0 THEN [fault |-> FALSE, list |-> lists \o g.list]
  ELSE getsLoop(mem, g.lastDec, lists \o g.list)

gets(km, mem, key) ==
  IF key \notin DOMAIN km \/ km[key] = notExist
  THEN [fault |-> FALSE, list |-> <<>>]
  ELSE getsLoop(mem, km[key], <<>>)

(* -------------------------------------------------------- del / delPrefix *)

\* strings.HasPrefix
HasPrefix(value, v) ==
  Len(v) <= Len(value) /\ SubSeq(value, 1, Len(v)) = v

\* The slot at i holds a value of the delete set.
delMatch(value, valueMap) == value \in valueMap

\* The scan of del over one record; valueMap is the set of values to delete.
RECURSIVE delLoop(_, _, _, _, _)
delLoop(mem, off, total, i, valueMap) ==
  IF i >= total - TrailerLen THEN [fault |-> FALSE, mem |-> mem]
  ELSE LET bi == Rd(mem, off + i) IN
       IF bi = 0
       THEN delLoop(mem, off, total,
                    skipZeros(mem, off, i, total - TrailerLen), valueMap)
       ELSE IF off + i + 1 + bi > MapLength THEN [fault |-> TRUE, mem |-> mem]
       ELSE LET value == Bytes(mem, off + i + 1, bi)
                m2 == IF delMatch(value, valueMap)
                      THEN WriteAt(mem, off + i, Rep(0, bi + 1))
                      ELSE mem
            IN delLoop(m2, off, total, i + bi + 1, valueMap)

del(mem, off, valueMap) ==
  IF ~SliceOK(off, off + 8) THEN [fault |-> TRUE, mem |-> mem, lastDec |-> 0]
  ELSE IF bigUint64(Bytes(mem, off, 8)) = 0
       THEN [fault |-> FALSE, mem |-> mem, lastDec |-> 0]
  ELSE LET r == openRec(mem, off) IN
       IF ~r.ok THEN [fault |-> TRUE, mem |-> mem, lastDec |-> 0]
       ELSE LET d == delLoop(mem, off, r.total, r.i0, valueMap) IN
            [fault |-> d.fault, mem |-> d.mem,
             lastDec |-> nextOf(d.mem, off, r.total)]

RECURSIVE delsLoop(_, _, _)
delsLoop(mem, off, valueMap) ==
  LET d == del(mem, off, valueMap) IN
  IF d.fault \/ d.lastDec = 0 THEN [fault |-> d.fault, mem |-> d.mem]
  ELSE delsLoop(d.mem, d.lastDec, valueMap)

\* The set of the elements of a list: valueMap of dels.
Range(values) == {values[j] : j \in 1..Len(values)}

dels(km, mem, key, values) ==
  IF key \notin DOMAIN km THEN [fault |-> FALSE, mem |-> mem]
  ELSE IF Range(values) = {} THEN [fault |-> FALSE, mem |-> mem]
  ELSE delsLoop(mem, km[key], Range(values))

\* The slot's value starts with one of the prefixes.
prefixMatch(value, values) ==
  \E j \in 1..Len(values) : HasPrefix(value, values[j])

RECURSIVE delPrefixLoop(_, _, _, _, _)
delPrefixLoop(mem, off, total, i, values) ==
  IF i >= total - TrailerLen THEN [fault |-> FALSE, mem |-> mem]
  ELSE LET bi == Rd(mem, off + i) IN
       IF bi = 0
       THEN delPrefixLoop(mem, off, total,
                          skipZeros(mem, off, i, total - TrailerLen), values)
       ELSE IF off + i + 1 + bi > MapLength THEN [fault |-> TRUE, mem |-> mem]
       ELSE LET value == Bytes(mem, off + i + 1, bi)
                m2 == IF prefixMatch(value, values)
                      THEN WriteAt(mem, off + i, Rep(0, bi + 1))
                      ELSE mem
            IN delPrefixLoop(m2, off, total, i + bi + 1, values)

delPrefix(mem, off, values) ==
  IF ~SliceOK(off, off + 8) THEN [fault |-> TRUE, mem |-> mem, lastDec |-> 0]
  ELSE IF bigUint64(Bytes(mem, off, 8)) = 0
       THEN [fault |-> FALSE, mem |-> mem, lastDec |-> 0]
  ELSE LET r == openRec(mem, off) IN
       IF ~r.ok THEN [fault |-> TRUE, mem |-> mem, lastDec |-> 0]
       ELSE LET d == delPrefixLoop(mem, off, r.total, r.i0, values) IN
            [fault |-> d.fault, mem |-> d.mem,
             lastDec |-> nextOf(d.mem, off, r.total)]

RECURSIVE delsPrefixLoop(_, _, _)
delsPrefixLoop(mem, off, values) ==
  LET d == delPrefix(mem, off, values) IN
  IF d.fault \/ d.lastDec = 0 THEN [fault |-> d.fault, mem |-> d.mem]
  ELSE delsPrefixLoop(d.mem, d.lastDec, values)

delsPrefix(km, mem, key, values) ==
  IF key \notin DOMAIN km THEN [fault |-> FALSE, mem |-> mem]
  ELSE IF Len(values) = 0 THEN [fault |-> FALSE, mem |-> mem]
  ELSE delsPrefixLoop(mem, km[key], values)

(* ------------------------------------------------------------- gap search *)

NoGap(fault, o, lastDec) ==
  [fault |-> fault, o |-> o, lastDec |-> lastDec, start |-> 0, end |-> 0,
   t |-> FALSE]

\* The loop of empty1: t and start are set at the first 0x00 byte; the first
\* live byte after it ends the scan (lastDec is then left 0).
RECURSIVE empty1Loop(_, _, _, _, _, _)
empty1Loop(mem, off, total, i, t, start) ==
  IF i >= total - TrailerLen
  THEN [fault |-> FALSE, o |-> off, lastDec |-> nextOf(mem, off, total),
        start |-> start, end |-> IF t THEN total - TrailerLen ELSE 0, t |-> t]
  ELSE LET bi == Rd(mem, off + i) IN
       IF bi = 0
       THEN empty1Loop(mem, off, total,
                       skipZeros(mem, off, i, total - TrailerLen), TRUE,
                       IF t THEN start ELSE i)
       ELSE IF t
            THEN [fault |-> FALSE, o |-> off, lastDec |-> 0, start |-> start,
                  end |-> i, t |-> TRUE]
            ELSE empty1Loop(mem, off, total, i + bi + 1, t, start)

empty1(mem, off) ==
  LET r == openRec(mem, off) IN
  IF ~r.ok THEN NoGap(TRUE, off, 0)
  ELSE empty1Loop(mem, off, r.total, r.i0, FALSE, 0)

RECURSIVE empty(_, _)
empty(mem, off) ==
  LET e == empty1(mem, off) IN
  IF e.fault \/ e.lastDec = 0 \/ e.t THEN e ELSE empty(mem, e.lastDec)

(* ------------------------------------------------------------- chain tail *)

\* b8 is given by its position in the mapping; -1 stands for a nil slice.
b8(mem, soff, off) ==
  IF off >= soff THEN [fault |-> FALSE, lastDec |-> 0, b8 |-> -1]
  ELSE IF ~SliceOK(off, off + 8) THEN [fault |-> TRUE, lastDec |-> 0, b8 |-> -1]
  ELSE LET total == bigUint64(Bytes(mem, off, 8)) IN
       IF ~SliceOK(off + total - 8, off + total) \/ ~SliceOK(off, off + total)
          \/ total < 8
       THEN [fault |-> TRUE, lastDec |-> 0, b8 |-> -1]
       ELSE [fault |-> FALSE, lastDec |-> nextOf(mem, off, total),
             b8 |-> off + total - 8]

RECURSIVE getB8byOffset(_, _, _)
getB8byOffset(mem, soff, off) ==
  LET r == b8(mem, soff, off) IN
  IF r.fault \/ r.lastDec = 0 THEN r ELSE getB8byOffset(mem, soff, r.lastDec)

(* -------------------------------------------------------------------- add *)

\* The outcome of a call: the engine's fields, the error returned and whether
\* the call panicked.
Out(km, soff, mem, err, fault) ==
  [keyMap |-> km, offset |-> soff, bytesAddr |-> mem, err |-> err,
   fault |-> fault]

\* The value loop of add over the scratch buffer b: idx is the write index,
\* blen is len(b), body the slots written so far.  The buffer grows by one
\* block when len(b) < idx+len(value)+2; a value longer than 255 ends the
\* loop with the error.
RECURSIVE addLoop(_, _, _, _, _)
addLoop(values, j, idx, blen, body) ==
  IF j > Len(values)
  THEN [err |-> FALSE, idx |-> idx, blen |-> blen, body |-> body]
  ELSE LET value == values[j]
           blen2 == IF blen < idx + Len(value) + 2 THEN blen + ScratchLen
                    ELSE blen
       IN IF Len(value) > MaxValueLen
          THEN [err |-> TRUE, idx |-> idx, blen |-> blen2, body |-> body]
          ELSE addLoop(values, j + 1, idx + 1 + Len(value), blen2,
                       body \o <<Len(value) % ByteMod>> \o value)

\* binary.BigEndian.PutUint64(b[idx:], ..) needs 8 bytes of b after idx, and
\* b[:total] needs total <= cap(b); an ungrown buffer has cap(b) = len(b).
\* (A buffer grown once by append has len 2048 and a capacity of at least
\* 2688, above every total it can hold; the lists of the model grow the
\* buffer at most once.)
addPanics(idx, blen) ==
  blen - idx < 8 \/ (blen = ScratchLen /\ idx + TrailerLen > ScratchLen)

\* The record add hands to f.Write.
recordBytes(key, body, total, soff) ==
  PutUint64(total) \o <<Len(key) % ByteMod>> \o key \o body
    \o PutUint64(total + soff) \o Rep(0, 8)

\* s.keyMap[key] = s.offset, unless the key already has a real offset.
publish(km, key, soff) ==
  IF key \notin DOMAIN km \/ km[key] = notExist
  THEN [x \in DOMAIN km \cup {key} |-> IF x = key THEN soff ELSE km[x]]
  ELSE km

\* add: b8pos is the position of the tail's next field, -1 for a nil b8.  The
\* record is written at the file position, which is the end of the file.
add(km, soff, mem, b8pos, key, values) ==
  LET l == addLoop(values, 1, Len(key) + 1 + 8, ScratchLen, <<>>)
      total == l.idx + TrailerLen
  IN IF l.err THEN Out(km, soff, mem, TRUE, FALSE)
     ELSE IF addPanics(l.idx, l.blen) THEN Out(km, soff, mem, FALSE, TRUE)
     ELSE LET written == mem \o recordBytes(key, l.body, total, soff)
              linked == IF b8pos >= 0
                        THEN WriteAt(written, b8pos, PutUint64(soff))
                        ELSE written
          IN Out(publish(km, key, soff), soff + total, linked, FALSE, FALSE)

\* A variant of the fit rule that also admits a value as long as the gap.
fitsLoose(value, e) == e.t /\ Len(value) <= e.end - e.start

\* The fit rule of the single-value path.
fits(value, e) == e.t /\ Len(value) < e.end - e.start

\* The in-place write of the single-value path: b is cut with the total of
\* the head record, whatever record o the gap is in.
gapWrite(km, soff, mem, off, e, value) ==
  LET total == bigUint64(Bytes(mem, off, 8)) IN
  IF ~SliceOK(e.o, e.o + total) \/ e.start >= total
  THEN Out(km, soff, mem, FALSE, TRUE)
  ELSE LET n == Min(total - e.start - 1, Len(value))
           m1 == WriteAt(mem, e.o + e.start, <<Len(value) % ByteMod>>)
           m2 == WriteAt(m1, e.o + e.start + 1, SubSeq(value, 1, n))
       IN Out(km, soff, m2, FALSE, FALSE)

appendToChain(km, soff, mem, key, values) ==
  LET t == getB8byOffset(mem, soff, km[key]) IN
  IF t.fault THEN Out(km, soff, mem, FALSE, TRUE)
  ELSE add(km, soff, mem, t.b8, key, values)

adds(km, soff, mem, key, values) ==
  IF Len(values) = 0 THEN Out(km, soff, mem, FALSE, FALSE)
  ELSE IF key \notin DOMAIN km \/ km[key] = notExist
       THEN add(km, soff, mem, -1, key, values)
  ELSE IF Len(values) = 1
       THEN LET e == empty(mem, km[key]) IN
            IF e.fault THEN Out(km, soff, mem, FALSE, TRUE)
            ELSE IF fits(values[1], e)
                 THEN gapWrite(km, soff, mem, km[key], e, values[1])
                 ELSE appendToChain(km, soff, mem, key, values)
  ELSE appendToChain(km, soff, mem, key, values)

\* add when s.f.Write fails after putting the first n bytes of the record on
\* the file (n < total): the error is returned before the index, the tail's
\* next and s.offset are touched.
addShort(km, soff, mem, key, values, n) ==
  LET l == addLoop(values, 1, Len(key) + 1 + 8, ScratchLen, <<>>)
      total == l.idx + TrailerLen
  IN IF l.err THEN Out(km, soff, mem, TRUE, FALSE)
     ELSE IF addPanics(l.idx, l.blen) THEN Out(km, soff, mem, FALSE, TRUE)
     ELSE Out(km, soff,
              mem \o SubSeq(recordBytes(key, l.body, total, soff), 1,
                            Min(n, total - 1)),
              TRUE, FALSE)

\* The call adds(key, values) gets as far as s.f.Write: it returns neither
\* early nor through the gap path.
reachesWrite(km, soff, mem, key, values) ==
  LET r == adds(km, soff, mem, key, values) IN
  ~r.err /\ ~r.fault /\ r.offset # soff

(* ----------------------------------------------------------------- inputs *)

\* Keys: a one-byte key and a key of 247 bytes (legal lengths are 1..255).
KeyShort == <<107>>
KeyLong == Rep(97, 247)
Keys == {KeyShort, KeyLong}

\* Values: "a", "ab", "abc", the empty string, a value of 247 bytes and one
\* of 256 bytes (one more than add accepts).
Va == <<97>>
Vab == <<97, 98>>
Vabc == <<97, 98, 99>>
Vempty == <<>>
Vlong == Rep(97, 247)
Vhuge == Rep(97, 256)

\* Argument lists of Add and Update.
AddLists ==
  {<<>>, <<Va>>, <<Vab>>, <<Vab, Vabc>>, <<Vempty>>, <<Vhuge>>,
   <<Vlong, Vlong>>, <<Va, Vhuge>>}

\* Argument lists of Del.
DelLists == {<<>>, <<Va>>, <<Vab>>, <<Vab, Vab>>, <<Vlong>>}

\* Argument lists of DelByPrefix.
PrefixLists == {<<>>, <<Va>>, <<Vab>>, <<Va, Vab>>, <<Vempty>>}

(* ---------------------------------------------------------- the operations *)

Sys == [keyMap |-> keyMap, offset |-> offset, bytesAddr |-> bytesAddr]

Call(op, key, args, err, fault, list, found) ==
  [op |-> op, key |-> key, args |-> args, err |-> err, fault |-> fault,
   list |-> list, found |-> found]

\* An operation is called in a live process (a panic ends it), at most limit
\* times in a run.
Running == ~crashed /\ Len(hist) < limit

\* The outcome r of a call becomes the state, and the call is recorded.
Step(r, call) ==
  /\ keyMap' = r.keyMap
  /\ offset' = r.offset
  /\ bytesAddr' = r.bytesAddr
  /\ crashed' = r.fault
  /\ hist' = Append(hist, call)
  /\ pre' = Sys
  /\ UNCHANGED <<mu, pc, readers, snap, limit>>

\* Update: oldValues := s.gets(key); s.dels(key, oldValues...);
\* err := s.adds(key, values...)
update(km, soff, mem, key, values) ==
  LET g == gets(km, mem, key) IN
  IF g.fault THEN Out(km, soff, mem, FALSE, TRUE)
  ELSE LET d == dels(km, mem, key, g.list) IN
       IF d.fault THEN Out(km, soff, d.mem, FALSE, TRUE)
       ELSE adds(km, soff, d.mem, key, values)

\* A variant of the test of Exist that takes the sentinel for a real offset.
existHitAnyEntry(km, key) == key \in DOMAIN km

\* Exist: true for a real offset; otherwise the sentinel is installed.
existHit(km, key) == key \in DOMAIN km /\ km[key] # notExist

exist(km, key) ==
  IF existHit(km, key) THEN [found |-> TRUE, keyMap |-> km]
  ELSE [found |-> FALSE,
        keyMap |-> [x \in DOMAIN km \cup {key} |->
                      IF x = key THEN notExist ELSE km[x]]]

Get(key) ==
  /\ Running
  /\ LET g == gets(keyMap, bytesAddr, key) IN
     Step(Out(keyMap, offset, bytesAddr, FALSE, g.fault),
          Call("Get", key, <<>>, FALSE, g.fault, g.list, FALSE))

Add(key, values) ==
  /\ Running
  /\ LET r == adds(keyMap, offset, bytesAddr, key, values) IN
     Step(r, Call("Add", key, values, r.err, r.fault, <<>>, FALSE))

Del(key, values) ==
  /\ Running
  /\ LET d == dels(keyMap, bytesAddr, key, values) IN
     Step(Out(keyMap, offset, d.mem, FALSE, d.fault),
          Call("Del", key, values, FALSE, d.fault, <<>>, FALSE))

DelByPrefix(key, values) ==
  /\ Running
  /\ LET d == delsPrefix(keyMap, bytesAddr, key, values) IN
     Step(Out(keyMap, offset, d.mem, FALSE, d.fault),
          Call("DelByPrefix", key, values, FALSE, d.fault, <<>>, FALSE))

Update(key, values) ==
  /\ Running
  /\ LET r == update(keyMap, offset, bytesAddr, key, values) IN
     Step(r, Call("Update", key, values, r.err, r.fault, <<>>, FALSE))

Exist(key) ==
  /\ Running
  /\ LET e == exist(keyMap, key) IN
     Step(Out(e.keyMap, offset, bytesAddr, FALSE, FALSE),
          Call("Exist", key, <<>>, FALSE, FALSE, <<>>, e.found))

\* The goroutines of the concurrent specification: two that call Get and two
\* that call the other operations.
Getters == {"g1", "g2"}
Mutators == {"m1", "m2"}
Procs == Getters \cup Mutators

\* mu is the goroutine that holds s.mu exclusively (NoOne: nobody), readers
\* the goroutines that hold it shared.
NoOne == "-"

\* A goroutine between calls, after `calls` calls.
Idle(calls) ==
  [at |-> "idle", op |-> "", key |-> <<>>, args |-> <<>>, list |-> <<>>,
   calls |-> calls]

\* NewMsearch: an empty index, offset 0, and (the model's choice) an empty
\* backing file; no goroutine holds the lock.  n is the number of operations
\* the run will call.
Start(n) ==
  /\ keyMap = <<>>
  /\ offset = 0
  /\ bytesAddr = <<>>
  /\ crashed = FALSE
  /\ hist = <<>>
  /\ pre = [keyMap |-> <<>>, offset |-> 0, bytesAddr |-> <<>>]
  /\ mu = NoOne
  /\ readers = {}
  /\ pc = [p \in Procs |-> Idle(0)]
  /\ snap = [keyMap |-> <<>>, offset |-> 0, bytesAddr |-> <<>>]
  /\ limit = n

Init == Start(MaxOps)

\* The operations a caller can invoke, over given sets of arguments.
Ops(keys, addLists, delLists, prefixLists) ==
  \E key \in keys :
    \/ Get(key)
    \/ Exist(key)
    \/ \E values \in addLists : Add(key, values)
    \/ \E values \in addLists : Update(key, values)
    \/ \E values \in delLists : Del(key, values)
    \/ \E values \in prefixLists : DelByPrefix(key, values)

Next == Ops(Keys, AddLists, DelLists, PrefixLists)

Spec == Init /\ [][Next]_vars

\* The same operations over fewer argument lists: an empty list, one valid
\* value, one value that is too long.
NarrowAddLists == {<<>>, <<Va>>, <<Vhuge>>}
NarrowDelLists == {<<Va>>}

NextNarrow == Ops(Keys, NarrowAddLists, NarrowDelLists, NarrowDelLists)

SpecNarrow == Init /\ [][NextNarrow]_vars

\* Gap reuse: one short key, short values and a value of 30 bytes, so that a
\* record can hold gaps of 2, 3 and 4 bytes, before a live slot or before the
\* trailer, and a successor record a gap that starts past the head's total.
V30 == Rep(98, 30)
GapAddLists == {<<Va>>, <<Vab>>, <<Vabc>>, <<Va, Vab, Vabc>>, <<V30, Vab>>}
GapDelLists == {<<Vab>>, <<Va, Vabc>>}
GapPrefixLists == {<<Vabc>>}

InitGap == Start(MaxGapOps)

NextGap == Ops({KeyShort}, GapAddLists, GapDelLists, GapPrefixLists)

SpecGap == InitGap /\ [][NextGap]_vars

\* The same with fewer lists: the gaps of one record and of its successors
\* under values of one to three bytes.
FitAddLists == {<<Va>>, <<Vab>>, <<Va, Vab, Vabc>>}
FitDelLists == {<<Vab>>}

NextFit == Ops({KeyShort}, FitAddLists, FitDelLists, GapPrefixLists)

SpecFit == InitGap /\ [][NextFit]_vars

\* Record assembly: lists whose slots end well inside the scratch buffer
\* (1002 of 1024 bytes), 15 bytes before its end (1009), and past it (1250,
\* after one growth step).
V6 == Rep(99, 6)
BigAddLists ==
  {<<Va>>, <<Vlong, Vlong, Vlong, Vlong>>,
   <<Vlong, Vlong, Vlong, Vlong, V6>>,
   <<Vlong, Vlong, Vlong, Vlong, Vlong>>}
BigDelLists == {<<Vlong>>}

InitBig == Start(MaxBigOps)

NextBig == Ops({KeyShort}, BigAddLists, BigDelLists, BigDelLists)

SpecBig == InitBig /\ [][NextBig]_vars

\* Add when the write of the record fails after n bytes.
AddShortWrite(key, values, n) ==
  /\ Running
  /\ reachesWrite(keyMap, offset, bytesAddr, key, values)
  /\ LET r == addShort(keyMap, offset, bytesAddr, key, values, n) IN
     Step(r, Call("Add", key, values, r.err, r.fault, <<>>, FALSE))

\* Failing writes: nothing written, five bytes of the total field written,
\* the header and a part of the first slot written.
ShortWrites == {0, 5, 12}
IOAddLists == {<<Va>>, <<Vab, Vabc>>}
IODelLists == {<<Va>>}

NextIO ==
  \/ Ops({KeyShort}, IOAddLists, IODelLists, IODelLists)
  \/ \E values \in IOAddLists, n \in ShortWrites :
       AddShortWrite(KeyShort, values, n)

SpecIO == Init /\ [][NextIO]_vars

(* -------------------------------------------------------------- goroutines *)

\* A variant in which every operation takes s.mu shared.
lockModeAllShared(op) == "shared"

\* How each operation takes s.mu: Get shared (RLock), every other operation
\* exclusive (Lock).
lockMode(op) == IF op = "Get" THEN "shared" ELSE "exclusive"

ConcKeys == {KeyShort}
ConcLists == {<<Va>>, <<Vab, Va>>}
MutatorOps == {"Add", "Del", "DelByPrefix", "Update", "Exist"}

At(p, at) == [pc EXCEPT ![p].at = at]

Frame == UNCHANGED <<hist, pre, limit>>
SameStore == UNCHANGED <<keyMap, offset, bytesAddr, crashed>>

\* A goroutine calls an operation: it stands before s.mu.Lock() / RLock().
Invoke(p) ==
  /\ ~crashed
  /\ pc[p].at = "idle"
  /\ pc[p].calls < MaxCalls
  /\ \E op \in (IF p \in Getters THEN {"Get"} ELSE MutatorOps),
        key \in ConcKeys :
       \E args \in (IF op \in {"Get", "Exist"} THEN {<<>>} ELSE ConcLists) :
         pc' = [pc EXCEPT ![p] = [at |-> "call", op |-> op, key |-> key,
                                  args |-> args, list |-> <<>>,
                                  calls |-> pc[p].calls]]
  /\ SameStore /\ Frame /\ UNCHANGED <<mu, readers, snap>>

\* s.mu.RLock() returns: no goroutine holds the lock exclusively.
RLock(p) ==
  /\ ~crashed
  /\ pc[p].at = "call"
  /\ lockMode(pc[p].op) = "shared"
  /\ mu = NoOne
  /\ readers' = readers \cup {p}
  /\ pc' = At(p, "in")
  /\ SameStore /\ Frame /\ UNCHANGED <<mu, snap>>

\* s.mu.Lock() returns: no goroutine holds the lock in either mode.
Lock(p) ==
  /\ ~crashed
  /\ pc[p].at = "call"
  /\ lockMode(pc[p].op) = "exclusive"
  /\ mu = NoOne
  /\ readers = {}
  /\ mu' = p
  /\ pc' = At(p, "in")
  /\ SameStore /\ Frame /\ UNCHANGED <<readers, snap>>

\* The body of Get: s.gets(key).
GetBody(p) ==
  /\ ~crashed
  /\ pc[p].at = "in"
  /\ pc[p].op = "Get"
  /\ LET g == gets(keyMap, bytesAddr, pc[p].key) IN
     /\ pc' = [pc EXCEPT ![p].at = "out", ![p].list = g.list]
     /\ crashed' = g.fault
  /\ UNCHANGED <<keyMap, offset, bytesAddr, mu, readers, snap>>
  /\ Frame

\* The outcome r of a body (or of a part of it) becomes the store.
Store(p, r, at) ==
  /\ keyMap' = r.keyMap
  /\ offset' = r.offset
  /\ bytesAddr' = r.bytesAddr
  /\ crashed' = r.fault
  /\ pc' = At(p, at)
  /\ UNCHANGED <<mu, readers, snap>>
  /\ Frame

\* The bodies of Add, Del, DelByPrefix and Exist.
MutateBody(p) ==
  /\ ~crashed
  /\ pc[p].at = "in"
  /\ pc[p].op \in {"Add", "Del", "DelByPrefix", "Exist"}
  /\ LET key == pc[p].key
         args == pc[p].args
         d == IF pc[p].op = "Del" THEN dels(keyMap, bytesAddr, key, args)
              ELSE delsPrefix(keyMap, bytesAddr, key, args)
         r == CASE pc[p].op = "Add" ->
                     adds(keyMap, offset, bytesAddr, key, args)
                [] pc[p].op = "Exist" ->
                     Out(exist(keyMap, key).keyMap, offset, bytesAddr,
                         FALSE, FALSE)
                [] OTHER -> Out(keyMap, offset, d.mem, FALSE, d.fault)
     IN Store(p, r, "out")

\* The first half of the body of Update: oldValues := s.gets(key);
\* s.dels(key, oldValues...).
UpdateDels(p) ==
  /\ ~crashed
  /\ pc[p].at = "in"
  /\ pc[p].op = "Update"
  /\ LET g == gets(keyMap, bytesAddr, pc[p].key)
         d == dels(keyMap, bytesAddr, pc[p].key, g.list)
     IN Store(p, Out(keyMap, offset, d.mem, FALSE, g.fault \/ d.fault), "mid")

\* The second half: err := s.adds(key, values...).
UpdateAdds(p) ==
  /\ ~crashed
  /\ pc[p].at = "mid"
  /\ Store(p, adds(keyMap, offset, bytesAddr, pc[p].key, pc[p].args), "out")

\* The deferred s.mu.RUnlock() / s.mu.Unlock(): the call returns.  snap is
\* the store as the last whole mutation left it.
Unlock(p) ==
  /\ ~crashed
  /\ pc[p].at = "out"
  /\ pc' = [pc EXCEPT ![p] = Idle(pc[p].calls + 1)]
  /\ mu' = IF mu = p THEN NoOne ELSE mu
  /\ readers' = readers \ {p}
  /\ snap' = IF pc[p].op = "Get" THEN snap ELSE Sys
  /\ SameStore /\ Frame

NextConc ==
  \E p \in Procs :
    \/ Invoke(p)
    \/ RLock(p)
    \/ Lock(p)
    \/ GetBody(p)
    \/ MutateBody(p)
    \/ UpdateDels(p)
    \/ UpdateAdds(p)
    \/ Unlock(p)

SpecConc == Init /\ [][NextConc]_vars

(* ------------------------------------------------------ reading the history *)

Last == hist[Len(hist)]

\* The last call was op and it returned (it did not panic).
Returned(op) == Len(hist) > 0 /\ Last.op = op /\ ~Last.fault

\* The index holds a real head offset for key.
HasChain(km, key) == key \in DOMAIN km /\ km[key] # notExist

ValidValue(v) == Len(v) >= 1 /\ Len(v) <= MaxValueLen
AllValid(values) == \A j \in 1..Len(values) : ValidValue(values[j])
ValidKey(key) == Len(key) >= 1 /\ Len(key) <= 255

\* What Get(key) returns now, and what it returned before the last call.
NowGet(key) == gets(keyMap, bytesAddr, key)
PreGet(key) == gets(pre.keyMap, pre.bytesAddr, key)

Got(list) == [fault |-> FALSE, list |-> list]

\* The call hist[j] was an Add or Update of at least one value on key that
\* returned success.
Stored(j, key) ==
  /\ hist[j].op \in {"Add", "Update"}
  /\ hist[j].key = key
  /\ Len(hist[j].args) >= 1
  /\ ~hist[j].err
  /\ ~hist[j].fault

\* Some call before hist[n] stored values on key.
StoredBefore(n, key) == \E j \in 1..(n - 1) : Stored(j, key)

(* ------------------------------------------------------------------ claims *)

\* C1 (as claimed): after Add(k, v1..vn) of valid values on a key without a
\* chain returns success, Get(k) returns exactly <<v1, .., vn>>, for every
\* key of length 1..255.
C1_RoundTrip ==
  (/\ Returned("Add")
   /\ ~Last.err
   /\ ValidKey(Last.key)
   /\ ~HasChain(pre.keyMap, Last.key)
   /\ Len(Last.args) >= 1
   /\ AllValid(Last.args))
  => NowGet(Last.key) = Got(Last.args)

\* The list without the members of the set D, order kept.
Without(list, D) == SelectSeq(list, LAMBDA v : v \notin D)

\* C2 (as claimed): Del(k, D) on a key with a chain returns, and Get(k)
\* afterwards is Get(k) before without every value that equals a member of
\* D, order kept; a second Del(k, D) changes nothing.
C2_DelExactFilter ==
  (/\ Len(hist) > 0
   /\ Last.op = "Del"
   /\ HasChain(pre.keyMap, Last.key)
   /\ Len(Last.args) >= 1
   /\ ~PreGet(Last.key).fault)
  => /\ ~Last.fault
     /\ NowGet(Last.key)
          = Got(Without(PreGet(Last.key).list, Range(Last.args)))
     /\ (/\ Len(hist) >= 2
         /\ hist[Len(hist) - 1].op = "Del"
         /\ hist[Len(hist) - 1].key = Last.key
         /\ hist[Len(hist) - 1].args = Last.args)
        => NowGet(Last.key) = PreGet(Last.key)

\* The list without the values that start with a member of the list P.
WithoutPrefixed(list, P) ==
  SelectSeq(list, LAMBDA v : ~(\E j \in 1..Len(P) : HasPrefix(v, P[j])))

\* C3 (as claimed): DelByPrefix(k, P) on a key with a chain returns, and
\* Get(k) afterwards is Get(k) before without exactly the values that start
\* with a member of P, order kept.
C3_PrefixExactFilter ==
  (/\ Len(hist) > 0
   /\ Last.op = "DelByPrefix"
   /\ HasChain(pre.keyMap, Last.key)
   /\ Len(Last.args) >= 1
   /\ ~PreGet(Last.key).fault)
  => /\ ~Last.fault
     /\ NowGet(Last.key)
          = Got(WithoutPrefixed(PreGet(Last.key).list, Last.args))

\* The last three calls were Add(k, x, y) on a key without a chain, Del(k, x)
\* and Add(k, z), with valid values and |z| < |x| < |y|.
AddDelAdd ==
  /\ Len(hist) >= 3
  /\ LET n == Len(hist)
         c1 == hist[n - 2]
         c2 == hist[n - 1]
         c3 == hist[n]
     IN /\ c1.op = "Add" /\ c2.op = "Del" /\ c3.op = "Add"
        /\ c2.key = c1.key /\ c3.key = c1.key
        /\ ValidKey(c1.key)
        /\ ~StoredBefore(n - 2, c1.key)
        /\ Len(c1.args) = 2 /\ Len(c3.args) = 1
        /\ c2.args = <<c1.args[1]>>
        /\ AllValid(c1.args) /\ AllValid(c3.args)
        /\ Len(c1.args[1]) < Len(c1.args[2])
        /\ Len(c3.args[1]) < Len(c1.args[1])

\* C4 (as claimed): Add(k, x, y); Del(k, x); Add(k, z) with |z| < |x| < |y|
\* on a fresh key appends no record in the last Add and Get(k) is <<z, y>>.
C4_AddAfterDel ==
  AddDelAdd
  => /\ ~Last.fault /\ ~Last.err
     /\ offset = pre.offset
     /\ NowGet(Last.key) = Got(<<Last.args[1], hist[Len(hist) - 2].args[2]>>)

\* C5 (as claimed): an Add with a value longer than 255 bytes returns an
\* error and leaves the index, offset and every byte unchanged.
C5_ValueTooLarge ==
  (/\ Len(hist) > 0
   /\ Last.op = "Add"
   /\ \E j \in 1..Len(Last.args) : Len(Last.args[j]) > MaxValueLen)
  => /\ Last.err
     /\ ~Last.fault
     /\ Sys = pre

\* C6 (as claimed): an Add with a value of length 0 returns an error.
C6_ZeroLengthRejected ==
  (/\ Len(hist) > 0
   /\ Last.op = "Add"
   /\ \E j \in 1..Len(Last.args) : Len(Last.args[j]) = 0)
  => Last.err

\* C7 (as claimed): after Update(k, vs) returns success, Get(k) is vs (for
\* valid values); after it returns an error, Get(k) is empty.
C7_UpdateReplaces ==
  (Returned("Update") /\ ValidKey(Last.key))
  => /\ Last.err => NowGet(Last.key) = Got(<<>>)
     /\ (~Last.err /\ AllValid(Last.args))
        => NowGet(Last.key) = Got(Last.args)

\* The index km with key marked notExist.
Marked(km, key) ==
  [x \in DOMAIN km \cup {key} |-> IF x = key THEN notExist ELSE km[x]]

\* C8: Exist(k) returns true exactly when the index holds a real offset for
\* k, which is exactly when an earlier Add or Update of at least one value
\* on k succeeded; it never changes offset, a byte or a real offset, and a
\* false result only installs the sentinel for k.
C8_Exist ==
  (Len(hist) > 0 /\ Last.op = "Exist")
  => /\ ~Last.fault
     /\ Last.found = HasChain(pre.keyMap, Last.key)
     /\ Last.found = StoredBefore(Len(hist), Last.key)
     /\ offset = pre.offset
     /\ bytesAddr = pre.bytesAddr
     /\ keyMap = IF Last.found THEN pre.keyMap
                 ELSE Marked(pre.keyMap, Last.key)

\* C8 witness: Exist(k) returned false, an Add or Update then stored a value
\* on k, and Exist(k) returned true.
C8_Witness ==
  /\ Len(hist) >= 3
  /\ Last.op = "Exist" /\ Last.found
  /\ \E i \in 1..Len(hist) :
       /\ hist[i].op = "Exist"
       /\ hist[i].key = Last.key
       /\ ~hist[i].found
       /\ \E j \in (i + 1)..(Len(hist) - 1) : Stored(j, Last.key)

\* The key of the last call was marked notExist before the call.
OnMarkedKey ==
  /\ Len(hist) > 0
  /\ Last.key \in DOMAIN pre.keyMap
  /\ pre.keyMap[Last.key] = notExist

\* C9 (as claimed): on a key marked notExist, Get returns the empty list and
\* Del and DelByPrefix with arguments return without a fault and change
\* nothing.
C9_MarkedKeyIsAbsent ==
  /\ (OnMarkedKey /\ Last.op = "Get")
     => (~Last.fault /\ Last.list = <<>> /\ Sys = pre)
  /\ (OnMarkedKey /\ Last.op \in {"Del", "DelByPrefix"}
        /\ Len(Last.args) >= 1)
     => (~Last.fault /\ Sys = pre)

\* A goroutine is inside a mutating operation: past Lock, before Unlock.
Mutating(p) == pc[p].op # "Get" /\ pc[p].at \in {"in", "mid", "out"}

\* C10: a Get that has read holds the lock while no mutating operation is
\* between its lock and its unlock, and its result is the value list of its
\* key in the store as the last whole mutation left it.
C10_AtomicVisibility ==
  \A g \in Procs :
    (pc[g].op = "Get" /\ pc[g].at = "out")
    => /\ \A m \in Procs : ~Mutating(m)
       /\ pc[g].list = gets(snap.keyMap, snap.bytesAddr, pc[g].key).list

\* C10 witness: a Get has been called and waits for the lock while an Update
\* is between its two halves, the key's values all tombstoned, where the
\* last whole mutation left the key a non-empty list.
C10_Witness ==
  \E g \in Procs, m \in Procs :
    /\ pc[g].op = "Get" /\ pc[g].at = "call"
    /\ pc[m].op = "Update" /\ pc[m].at = "mid"
    /\ pc[m].key = pc[g].key
    /\ NowGet(pc[g].key).list = <<>>
    /\ gets(snap.keyMap, snap.bytesAddr, pc[g].key).list # <<>>

(* ------------------------------------------------------- reading the chain *)

\* The sum of 1 + |v| over the values of a list: the bytes of their slots.
RECURSIVE SlotBytes(_)
SlotBytes(values) ==
  IF values = <<>> THEN 0 ELSE 1 + Len(Head(values)) + SlotBytes(Tail(values))

\* The total of the record that holds key and values.
RecordTotal(key, values) == 9 + Len(key) + SlotBytes(values) + TrailerLen

\* The offsets of the records of the chain that starts at off, in chain
\* order, following at most n links; a link that leaves the written file
\* ends the list.
RECURSIVE ChainFrom(_, _, _, _)
ChainFrom(mem, soff, off, n) ==
  IF n = 0 \/ off < 0 \/ off >= soff \/ ~openRec(mem, off).ok THEN <<>>
  ELSE LET nx == nextOf(mem, off, openRec(mem, off).total) IN
       IF nx = 0 THEN <<off>>
       ELSE <<off>> \o ChainFrom(mem, soff, nx, n - 1)

\* The chain of key in the store s (empty when the key has no real offset).
Chain(s, key) ==
  IF HasChain(s.keyMap, key)
  THEN ChainFrom(s.bytesAddr, s.offset, s.keyMap[key], limit + 1)
  ELSE <<>>

\* C11 (as claimed): an Add of two or more valid values on a key that has a
\* chain appends exactly one record of total 9 + klen + sum(1 + |v|) + 16 at
\* the old end offset, links it at the chain tail, and Get(k) afterwards is
\* Get(k) before followed by the values, for every key of length 1..255.
C11_MultiAddAppends ==
  (/\ Len(hist) > 0
   /\ Last.op = "Add"
   /\ ValidKey(Last.key)
   /\ HasChain(pre.keyMap, Last.key)
   /\ Len(Last.args) >= 2
   /\ AllValid(Last.args)
   /\ ~PreGet(Last.key).fault)
  => /\ ~Last.fault /\ ~Last.err
     /\ offset = pre.offset + RecordTotal(Last.key, Last.args)
     /\ Chain(Sys, Last.key) = Append(Chain(pre, Last.key), pre.offset)
     /\ NowGet(Last.key) = Got(PreGet(Last.key).list \o Last.args)

(* ----------------------------------------------------------- reading gaps *)

\* The last call was an Add of one value on a key that had a chain.
SingleAdd ==
  /\ Len(hist) > 0
  /\ Last.op = "Add"
  /\ Len(Last.args) = 1
  /\ HasChain(pre.keyMap, Last.key)

\* The maximal runs of 0x00 bytes in the value area [9 + klen, total - 16)
\* of the record at off, found by walking its slots: each is [start, end).
RECURSIVE gapsLoop(_, _, _, _, _)
gapsLoop(mem, off, lim, i, acc) ==
  IF i >= lim THEN acc
  ELSE LET bi == Rd(mem, off + i) IN
       IF bi = 0
       THEN LET j == skipZeros(mem, off, i, lim) IN
            gapsLoop(mem, off, lim, j,
                     Append(acc, [o |-> off, start |-> i, end |-> j]))
       ELSE gapsLoop(mem, off, lim, i + bi + 1, acc)

GapsOf(mem, off) ==
  gapsLoop(mem, off, openRec(mem, off).total - TrailerLen,
           9 + Rd(mem, off + 8), <<>>)

\* The gaps of a chain, in chain order and, within a record, from the header.
RECURSIVE ChainGaps(_, _)
ChainGaps(mem, chain) ==
  IF chain = <<>> THEN <<>>
  ELSE GapsOf(mem, Head(chain)) \o ChainGaps(mem, Tail(chain))

\* The gaps of the chain that are strictly longer than n.
UsableGaps(s, key, n) ==
  SelectSeq(ChainGaps(s.bytesAddr, Chain(s, key)),
            LAMBDA g : g.end - g.start > n)

\* The slot of value sits at position start of the record at o.
SlotAt(mem, o, start, value) ==
  Bytes(mem, o + start, 1 + Len(value)) = <<Len(value)>> \o value

\* C12 (as claimed): a single-value Add on a key with a chain appends
\* nothing whenever some gap of the chain is strictly longer than the value,
\* and writes the value into the first such gap in chain order, also when
\* earlier gaps are too short.
C12_UsableGapSearch ==
  (/\ SingleAdd
   /\ ValidValue(Last.args[1])
   /\ ~PreGet(Last.key).fault
   /\ UsableGaps(pre, Last.key, Len(Last.args[1])) # <<>>)
  => LET g == Head(UsableGaps(pre, Last.key, Len(Last.args[1]))) IN
     /\ ~Last.fault /\ ~Last.err
     /\ offset = pre.offset
     /\ SlotAt(bytesAddr, g.o, g.start, Last.args[1])

\* The gap the scan of the last single-value Add selected.
Selected == empty(pre.bytesAddr, pre.keyMap[Last.key])
GapLen == Selected.end - Selected.start

\* C13 (as claimed): with g the length of the selected gap, a value of
\* length g - 1 is written into the gap and the end offset is unchanged; a
\* value of length g leaves the gap as it was and a record is appended.
C13_FitBoundary ==
  (/\ SingleAdd
   /\ ValidValue(Last.args[1])
   /\ ~Selected.fault
   /\ Selected.t)
  => /\ Len(Last.args[1]) = GapLen - 1
        => /\ ~Last.fault /\ ~Last.err
           /\ offset = pre.offset
           /\ SlotAt(bytesAddr, Selected.o, Selected.start, Last.args[1])
     /\ Len(Last.args[1]) = GapLen
        => /\ ~Last.fault /\ ~Last.err
           /\ offset = pre.offset + RecordTotal(Last.key, Last.args)
           /\ Bytes(bytesAddr, Selected.o + Selected.start, GapLen)
                = Rep(0, GapLen)

\* The last call was a single-value Add that returned success and appended
\* nothing: it wrote its value into a gap.
GapReused ==
  /\ SingleAdd
  /\ ~Last.fault /\ ~Last.err
  /\ offset = pre.offset

\* The 0x00 bytes left after the slot written into the selected gap.
Residual == GapLen - 1 - Len(Last.args[1])

\* The bytes of the mapping outside [lo, hi) are as before the last call.
SameOutside(lo, hi) ==
  /\ Len(bytesAddr) = Len(pre.bytesAddr)
  /\ \A j \in 1..Len(bytesAddr) :
       (j - 1 < lo \/ j - 1 >= hi) => bytesAddr[j] = pre.bytesAddr[j]

\* C14 (as claimed): after every gap-reuse write at least one 0x00 byte
\* remains between the new slot and the next live slot or the trailer.
C14_ResidualByte ==
  GapReused => (Selected.t /\ Residual >= 1)

\* C14 (amended): after a gap-reuse write the new slot lies inside the
\* selected gap: the value is at most g - 1 long, the g - 1 - |v| bytes that
\* follow the slot up to the end of the gap are still 0x00 (none when
\* |v| = g - 1), and no byte outside the slot has changed.
C14_SlotInsideGap ==
  GapReused
  => /\ Selected.t
     /\ Residual >= 0
     /\ Bytes(bytesAddr, Selected.o + Selected.end - Residual, Residual)
          = Rep(0, Residual)
     /\ SameOutside(Selected.o + Selected.start,
                    Selected.o + Selected.end - Residual)

\* C14 witness: a value of length g - 1 was written into a gap of length g
\* that is followed by a live slot, so that the new slot ends where the next
\* one begins.
C14_Witness ==
  /\ GapReused
  /\ Selected.t
  /\ Residual = 0
  /\ SlotAt(bytesAddr, Selected.o, Selected.start, Last.args[1])
  /\ Selected.end < openRec(bytesAddr, Selected.o).total - TrailerLen
  /\ Rd(bytesAddr, Selected.o + Selected.end) # 0

\* C15 (as claimed): when the selected gap lies in a successor record, the
\* single-value Add writes the length byte and the whole value at the gap's
\* start without a fault and without appending, and Get(k) then holds the
\* value.
C15_SuccessorGap ==
  (/\ SingleAdd
   /\ ValidValue(Last.args[1])
   /\ ~Selected.fault
   /\ fits(Last.args[1], Selected)
   /\ Selected.o # pre.keyMap[Last.key])
  => /\ ~Last.fault /\ ~Last.err
     /\ offset = pre.offset
     /\ SlotAt(bytesAddr, Selected.o, Selected.start, Last.args[1])
     /\ ~NowGet(Last.key).fault
     /\ Last.args[1] \in Range(NowGet(Last.key).list)

(* ------------------------------------------------------ chain structure *)

\* Every call so far returned without a panic and without an error.
AllSucceeded == \A j \in 1..Len(hist) : ~hist[j].fault /\ ~hist[j].err

\* The key stored in the record at off.
KeyOf(mem, off) == Bytes(mem, off + 9, Rd(mem, off + 8))

\* The record at off lies inside the written file, holds key, and its next
\* is 0 or the offset of a later record, below the end offset, from which
\* the same holds (n bounds the number of records, so a cycle fails).
RECURSIVE WellChained(_, _, _, _, _)
WellChained(mem, soff, key, off, n) ==
  /\ n > 0
  /\ 0 <= off /\ off < soff
  /\ openRec(mem, off).ok
  /\ off + openRec(mem, off).total <= soff
  /\ KeyOf(mem, off) = key
  /\ LET nx == nextOf(mem, off, openRec(mem, off).total) IN
     \/ nx = 0
     \/ /\ nx > off /\ nx < soff
        /\ WellChained(mem, soff, key, nx, n - 1)

\* C16 (as claimed): after any sequence of successful operations every real
\* head offset o satisfies 0 <= o < end_offset and o + total(o) <=
\* end_offset, every next is 0 or the offset of a later record of the same
\* key below end_offset, and every chain ends in one record whose next is 0.
C16_Structure ==
  AllSucceeded
  => \A key \in DOMAIN keyMap :
       keyMap[key] # notExist
       => WellChained(bytesAddr, offset, key, keyMap[key], Len(hist))

(* ---------------------------------------------------------- key isolation *)

\* The bytes of the record at off, as the store s holds them.
RecordOf(s, off) ==
  Bytes(s.bytesAddr, off, openRec(s.bytesAddr, off).total)

\* The last call left key as it was: its index entry, every byte of every
\* record of its chain, and what Get returns for it.
Untouched(key) ==
  /\ (key \in DOMAIN keyMap) = (key \in DOMAIN pre.keyMap)
  /\ key \in DOMAIN keyMap => keyMap[key] = pre.keyMap[key]
  /\ \A j \in 1..Len(Chain(pre, key)) :
       RecordOf(Sys, Chain(pre, key)[j]) = RecordOf(pre, Chain(pre, key)[j])
  /\ NowGet(key) = PreGet(key)

\* No record is in the chains of two keys.
DisjointChains ==
  \A k1 \in DOMAIN keyMap, k2 \in DOMAIN keyMap :
    k1 # k2 => Range(Chain(Sys, k1)) \cap Range(Chain(Sys, k2)) = {}

\* C17 (as claimed): an operation on one key leaves every other key
\* untouched (index entry, bytes of its records, result of Get); no record
\* is linked into the chains of two keys; a real head offset never changes.
C17_KeyIsolation ==
  Len(hist) > 0
  => /\ \A key \in (DOMAIN keyMap \cup DOMAIN pre.keyMap) \ {Last.key} :
          Untouched(key)
     /\ DisjointChains
     /\ \A key \in DOMAIN pre.keyMap :
          pre.keyMap[key] # notExist => keyMap[key] = pre.keyMap[key]

(* ------------------------------------------------------------ header bound *)

\* C18 (as claimed): for every key length 1..255 the scans of a record start
\* at record byte 9 + klen, the first byte of the value area, so that no
\* byte of total, klen or key is read as a slot.
C18_HeaderBound ==
  \A key \in DOMAIN keyMap :
    ValidKey(key)
    => \A j \in 1..Len(Chain(Sys, key)) :
         LET off == Chain(Sys, key)[j] IN
         openRec(bytesAddr, off).i0 = 9 + Rd(bytesAddr, off + 8)

(* --------------------------------------------------------- record assembly *)

\* The slots of a list of values, as they lie in a record.
RECURSIVE SlotsOf(_)
SlotsOf(values) ==
  IF values = <<>> THEN <<>>
  ELSE <<Len(Head(values))>> \o Head(values) \o SlotsOf(Tail(values))

\* C19 (as claimed): an Add of valid values that appends a record, whatever
\* their number and total size, returns without a fault, and the appended
\* record has total = 9 + klen + sum(1 + |v|) + 16 and holds every value.
C19_ScratchSuffices ==
  (/\ Len(hist) > 0
   /\ Last.op = "Add"
   /\ ValidKey(Last.key)
   /\ Len(Last.args) >= 1
   /\ AllValid(Last.args)
   /\ (Len(Last.args) >= 2 \/ ~HasChain(pre.keyMap, Last.key)))
  => /\ ~Last.fault /\ ~Last.err
     /\ offset = pre.offset + RecordTotal(Last.key, Last.args)
     /\ bigUint64(Bytes(bytesAddr, pre.offset, 8))
          = RecordTotal(Last.key, Last.args)
     /\ Bytes(bytesAddr, pre.offset + 9 + Len(Last.key),
              SlotBytes(Last.args))
          = SlotsOf(Last.args)

(* ---------------------------------------------------------- failing writes *)

\* The last call was an Add of valid values whose write failed.
WriteFailed ==
  /\ Len(hist) > 0
  /\ Last.op = "Add"
  /\ Last.err
  /\ AllValid(Last.args)

\* The last call was an Add of valid values that appended a record.
Appended ==
  /\ Len(hist) > 0
  /\ Last.op = "Add"
  /\ ~Last.err /\ ~Last.fault
  /\ AllValid(Last.args)
  /\ offset # pre.offset

\* C20 (as claimed): an Add whose write fails returns the error and leaves
\* the end offset, the index and every byte written before (so the tail's
\* next) unchanged; and every Add that appends, also after failed writes,
\* publishes an offset at which Get reads a well-formed record with that
\* Add's values.
C20_FailureContained ==
  /\ WriteFailed
     => /\ offset = pre.offset
        /\ keyMap = pre.keyMap
        /\ SubSeq(bytesAddr, 1, Len(pre.bytesAddr)) = pre.bytesAddr
  /\ Appended
     => get(bytesAddr, pre.offset)
          = [fault |-> FALSE, list |-> Last.args, lastDec |-> 0]

====
